---- MODULE Spec2Model ----
(***************************************************************************)
(* gappa: the two concurrent aggregation loops, run_nhd (commands/analyze/ *)
(* nhd.cpp) and run_heat_tree (commands/examine/heat_tree.cpp).            *)
(*                                                                         *)
(* One run is modelled: a command, a build (with or without OpenMP), a     *)
(* team of threads executing the "omp parallel for schedule(dynamic)" loop *)
(* over the input files, the implicit barrier at the end of the loop and   *)
(* the single-threaded statements that follow it.                          *)
(***************************************************************************)
EXTENDS Integers, Sequences, FiniteSets, TLC

(***************************************************************************)
(* Bounds of the model.                                                    *)
(***************************************************************************)
NumFiles   == 2      \* options.jplace_input.file_count()
MaxThreads == 2      \* largest team size of the parallel region
MaxBranch  == 2      \* branch length variants of one topology
MaxMass    == 1      \* largest mass on one edge of one sample

Files   == 0 .. (NumFiles - 1)
Threads == 1 .. MaxThreads

(***************************************************************************)
(* Numbers.  A double is modelled by the rational it stands for, kept in   *)
(* lowest terms with a positive denominator, so that equal numbers are     *)
(* equal records.  NaN is the result of 0.0 / 0.0.                         *)
(***************************************************************************)
RECURSIVE GCD(_, _)
GCD(a, b) == IF b = 0 THEN a ELSE GCD(b, a % b)

Abs(x) == IF x < 0 THEN 0 - x ELSE x

NaN == [n |-> 0, d |-> 0]

\* The number n / d, for d > 0.
Rat(n, d) == LET g == GCD(Abs(n), d) IN [n |-> n \div g, d |-> d \div g]

Zero == Rat(0, 1)
One  == Rat(1, 1)

RAdd(a, b) == Rat(a.n * b.d + b.n * a.d, a.d * b.d)
RLe(a, b)  == a.n * b.d <= b.n * a.d
RLt(a, b)  == a.n * b.d < b.n * a.d

\* a / k for an integer k > 0.
RDivInt(a, k) == Rat(a.n, a.d * k)

\* a / b for b >= 0; 0 / 0 is NaN (x / 0 for x # 0 does not occur).
RDiv(a, b) == IF b.n = 0 THEN NaN ELSE Rat(a.n * b.d, a.d * b.n)

(***************************************************************************)
(* Trees.  A topology stands for the node/edge structure together with the *)
(* node names and edge numbers; "A" and "B" have the same size but differ  *)
(* in structure, "C" has one more node.  bl stands for the branch lengths. *)
(***************************************************************************)
Topologies == {"A", "B", "C"}

NodeCount(topo) ==
    CASE topo = "A" -> 3
      [] topo = "B" -> 3
      [] topo = "C" -> 4
      [] OTHER      -> 0

EdgeCount(topo) == IF NodeCount(topo) = 0 THEN 0 ELSE NodeCount(topo) - 1

Trees     == [topo : Topologies, bl : 1 .. MaxBranch]
EmptyTree == [topo |-> "none", bl |-> 0]

TreeEmpty(t) == NodeCount(t.topo) = 0

\* genesis::placement::compatible_trees: same structure, names and edge
\* numbers; branch lengths are not compared.
compatible_trees(lhs, rhs) == lhs.topo = rhs.topo

(***************************************************************************)
(* Samples: a tree and the mass that the placements put on each edge.      *)
(***************************************************************************)
SampleSet ==
    UNION { { [tree |-> t, mass |-> m] : m \in [1 .. EdgeCount(t.topo) -> 1 .. MaxMass] }
            : t \in Trees }

\* placement_mass_per_edges_with_multiplicities: one entry per edge of the
\* sample's tree.
placement_mass_per_edges_with_multiplicities(sample) ==
    [i \in 1 .. EdgeCount(sample.tree.topo) |-> Rat(sample.mass[i], 1)]

(***************************************************************************)
(* Matrices of run_nhd.  A matrix is represented by its number of rows and *)
(* by what its entries are a function of.                                  *)
(***************************************************************************)
EmptyMatrix == [rows |-> 0, topo |-> "none", bl |-> 0]

MatrixEmpty(m) == m.rows = 0

node_branch_length_distance_matrix(t) ==
    [rows |-> NodeCount(t.topo), topo |-> t.topo, bl |-> t.bl]

node_root_direction_matrix(t) ==
    [rows |-> NodeCount(t.topo), topo |-> t.topo, bl |-> 0]

\* Tree that a matrix was computed from, as far as the matrix records it.
MatrixTopo(m) == m.topo

NoHist == [set |-> FALSE]

\* node_distance_histogram_set( sample, node_distances, node_sides, bins ):
\* the histograms of a sample are a function of the sample and of both
\* matrices.
node_distance_histogram_set(sample, nd, ns) ==
    [set |-> TRUE, sample |-> sample, nd |-> nd, ns |-> ns]

\* The reduction throws when the matrices do not have one row per node of
\* the sample's tree (the TODO in run_nhd relies on this exception).
HistogramThrows(sample, nd, ns) ==
    \/ nd.rows # NodeCount(sample.tree.topo)
    \/ ns.rows # NodeCount(sample.tree.topo)

\* Distance of two histogram sets: zero for equal sets, positive otherwise.
HistogramSetDistance(h1, h2) == IF h1 = h2 THEN 0 ELSE 1

\* An engine that computes the pairs i < j and does not mirror them.
node_histogram_distance_unmirrored(hv) ==
    [i \in Files |-> [j \in Files |->
        IF i < j THEN HistogramSetDistance(hv[i], hv[j]) ELSE 0]]

\* node_histogram_distance( hist_vecs ): pairs i < j are computed and
\* mirrored, the diagonal is zero.
node_histogram_distance(hv) ==
    [i \in Files |-> [j \in Files |->
        IF i = j THEN 0
        ELSE IF i < j THEN HistogramSetDistance(hv[i], hv[j])
        ELSE HistogramSetDistance(hv[j], hv[i])]]

NoMatrix == <<>>

(***************************************************************************)
(* Mass vectors of run_heat_tree.                                          *)
(***************************************************************************)
\* An assignment in place of the addition.
AddMassesAssign(total, masses) == masses

\* Lines 149-151: total_masses[i] += masses[i].
AddMasses(total, masses) ==
    [i \in 1 .. Len(total) |->
        IF i <= Len(masses) THEN RAdd(total[i], masses[i]) ELSE total[i]]

RECURSIVE SumSeq(_)
\* std::accumulate( total_masses.begin(), total_masses.end(), 0.0 )
SumSeq(s) == IF s = <<>> THEN Zero ELSE RAdd(Head(s), SumSeq(Tail(s)))

\* Relative normalisation that leaves the entries as they are.
RescaleNone(total, sum) == total

\* Lines 159-161: total_masses[i] /= sum.
Rescale(total, sum) == [i \in 1 .. Len(total) |-> RDiv(total[i], sum)]

(***************************************************************************)
(* State.                                                                  *)
(***************************************************************************)
VARIABLES
    cmd,            \* "nhd" (run_nhd) or "heat_tree" (run_heat_tree)
    openmp,         \* TRUE: the pragmas are in force; FALSE: build without OpenMP
    num_threads,    \* team size of the parallel region
    relative,       \* options.jplace_input.mass_norm_relative()
    samples,        \* options.jplace_input.sample( fi ), for each file index
    phase,          \* statement of the run function that the master is at
    status,         \* "running", "returned", "propagated", "terminated"
    next_fi,        \* next index that schedule(dynamic) hands out
    pc,             \* per thread: position in the loop body
    fi,             \* per thread: loop variable fi
    reg,            \* per thread: value of file_count read by ++file_count
    hist,           \* per thread: result of node_distance_histogram_set
    file_count,     \* size_t file_count
    reports,        \* number of "Processing file k of N" lines, per k
    lock,           \* holder of each named critical section, 0 if free
    node_distances, \* Matrix<double> node_distances
    node_sides,     \* Matrix<signed char> node_sides
    hist_vecs,      \* std::vector<NodeDistanceHistogramSet> hist_vecs
    nhd_matrix,     \* result of node_histogram_distance
    tree,           \* Tree tree
    total_masses,   \* std::vector<double> total_masses
    scale,          \* divisor that relative normalisation applied to total_masses, 1 if none
    output,         \* what was handed to the writer
    owner,          \* history: thread that each index was assigned to, 0 if none
    builds,         \* history: indices whose iteration constructed the matrices (run_nhd),
                    \*          or assigned tree and then total_masses (run_heat_tree)
    entered,        \* history: index of the first iteration that entered the section
    slot_writes,    \* history: per index, threads that stored into hist_vecs[fi]
    folded,         \* history: indices whose masses went into total_masses
    prev,           \* shared structures published by the previous run, if any
    log_scaling,        \* options.color_norm.log_scaling(), FALSE until read
    min_value_option,   \* options.color_norm.min_value_option, not given until read
    max_value_option,   \* options.color_norm.max_value_option, not given until read
    clip_under_option,  \* options.color_map.clip_under_option, FALSE until read
    color_norm,     \* min_value() and max_value() of *color_norm
    auto_min,       \* auto const auto_min
    warned,         \* the LOG_WARN of line 200 was issued
    rewritten,      \* history: the loop of lines 209-213 was executed
    stages,         \* history: stages of the colour normalisation, in order
    input,          \* history: total_masses at the start of the colour normalisation
    rescales        \* history: executions of the division of lines 159-161

config == <<cmd, openmp, num_threads, relative, samples>>
shared == <<node_distances, node_sides, hist_vecs, nhd_matrix, tree, total_masses,
            scale, output>>
sched  == <<next_fi, pc, fi, reg, hist, file_count, reports, lock>>
ghost  == <<owner, builds, entered, slot_writes, folded>>
norm   == <<log_scaling, min_value_option, max_value_option, clip_under_option,
            color_norm, auto_min, warned, rewritten, stages, input>>
vars   == <<config, phase, status, shared, sched, ghost, prev, norm, rescales>>

CriticalNames == {"GAPPA_NHD_CALCULATE_MATRICES", "GAPPA_VISUALIZE_ACCUMULATE"}

Team == 1 .. num_threads

NoOutput == [written |-> FALSE]
NoPrev   == [set |-> FALSE]

\* A command line option that holds a number: given with a value, or not.
NotGiven     == [given |-> FALSE]
Given(value) == [given |-> TRUE, value |-> value]

\* Colour normalisation before line 166.
NormStart ==
    /\ log_scaling = FALSE
    /\ min_value_option = NotGiven
    /\ max_value_option = NotGiven
    /\ clip_under_option = FALSE
    /\ color_norm = [min |-> Zero, max |-> One]
    /\ auto_min = Zero
    /\ warned = FALSE
    /\ rewritten = FALSE
    /\ stages = <<>>
    /\ input = <<>>

(***************************************************************************)
(* State at the entry of the parallel loop (nhd.cpp 112-116,               *)
(* heat_tree.cpp 114-116).                                                 *)
(***************************************************************************)
RunStart ==
    /\ phase = "loop"
    /\ status = "running"
    /\ next_fi = 0
    /\ pc = [w \in Team |-> "fetch"]
    /\ fi = [w \in Team |-> 0]
    /\ reg = [w \in Team |-> 0]
    /\ hist = [w \in Team |-> NoHist]
    /\ file_count = 0
    /\ reports = [k \in 1 .. NumFiles |-> 0]
    /\ lock = [n \in CriticalNames |-> 0]
    /\ node_distances = EmptyMatrix
    /\ node_sides = EmptyMatrix
    /\ hist_vecs = [f \in Files |-> NoHist]
    /\ nhd_matrix = NoMatrix
    /\ tree = EmptyTree
    /\ total_masses = <<>>
    /\ scale = One
    /\ output = NoOutput
    /\ owner = [f \in Files |-> 0]
    /\ builds = <<>>
    /\ entered = <<>>
    /\ slot_writes = [f \in Files |-> <<>>]
    /\ folded = {}
    /\ rescales = 0
    /\ NormStart

Init ==
    /\ cmd \in {"nhd", "heat_tree"}
    /\ openmp \in BOOLEAN
    /\ num_threads \in Threads
    /\ ~openmp => num_threads = 1
    /\ relative \in BOOLEAN
    /\ cmd = "nhd" => relative = FALSE
    /\ samples \in [Files -> SampleSet]
    /\ prev = NoPrev
    /\ RunStart

(***************************************************************************)
(* The parallel loop, common part (nhd.cpp 122-130, heat_tree.cpp 119-130).*)
(***************************************************************************)
InLoop(w) == status = "running" /\ phase = "loop" /\ w \in Team

\* The section without its exclusion.
CanEnterAlways(holder) == TRUE

\* #pragma omp critical: a thread enters when no thread holds the name.
CanEnter(holder) == holder = 0

\* A section that is never left.
ReleaseNever(held, name) == held

\* End of the structured block of #pragma omp critical: the name is free.
Release(held, name) == [held EXCEPT ![name] = 0]

\* schedule(dynamic): the next free index goes to the thread that asks; a
\* thread that finds none left is done with the loop.
Fetch(w) ==
    /\ InLoop(w)
    /\ pc[w] = "fetch"
    /\ IF next_fi < NumFiles
       THEN /\ fi' = [fi EXCEPT ![w] = next_fi]
            /\ next_fi' = next_fi + 1
            /\ owner' = [owner EXCEPT ![next_fi] = w]
            /\ pc' = [pc EXCEPT ![w] = "count_read"]
       ELSE /\ pc' = [pc EXCEPT ![w] = "finished"]
            /\ UNCHANGED <<fi, next_fi, owner>>
    /\ UNCHANGED <<config, phase, status, shared, reg, hist, file_count, reports, lock,
                   builds, entered, slot_writes, folded, prev, norm, rescales>>

\* ++file_count, first half: the unsynchronised read of the shared counter.
CountRead(w) ==
    /\ InLoop(w)
    /\ pc[w] = "count_read"
    /\ reg' = [reg EXCEPT ![w] = file_count]
    /\ pc' = [pc EXCEPT ![w] = "count_write"]
    /\ UNCHANGED <<config, phase, status, shared, next_fi, fi, hist, file_count, reports,
                   lock, ghost, prev, norm, rescales>>

\* ++file_count, second half, and the progress line that prints its value;
\* then the sample is read (and, in run_heat_tree, its masses computed),
\* which touches no shared state.
CountWrite(w) ==
    /\ InLoop(w)
    /\ pc[w] = "count_write"
    /\ file_count' = reg[w] + 1
    /\ reports' = [reports EXCEPT ![reg[w] + 1] = @ + 1]
    /\ pc' = [pc EXCEPT ![w] = "critical"]
    /\ UNCHANGED <<config, phase, status, shared, next_fi, fi, reg, hist, lock, ghost, prev, norm, rescales>>

(***************************************************************************)
(* run_nhd, loop body (nhd.cpp 132-143).                                   *)
(***************************************************************************)
NhdEnter(w) ==
    /\ InLoop(w)
    /\ cmd = "nhd"
    /\ pc[w] = "critical"
    /\ CanEnter(lock["GAPPA_NHD_CALCULATE_MATRICES"])
    /\ lock' = [lock EXCEPT !["GAPPA_NHD_CALCULATE_MATRICES"] = w]
    /\ entered' = IF entered = <<>> THEN <<fi[w]>> ELSE entered
    /\ pc' = [pc EXCEPT ![w] = "matrices"]
    /\ UNCHANGED <<config, phase, status, shared, next_fi, fi, reg, hist, file_count,
                   reports, owner, builds, slot_writes, folded, prev, norm, rescales>>

\* The construction without its test.
NeedMatricesAlways(nd) == TRUE

\* if( node_distances.empty() )
NeedMatrices(nd) == MatrixEmpty(nd)

\* Line 136-137: the test and the assignment of node_distances; when the
\* test fails the section is left.
NhdDistances(w) ==
    /\ InLoop(w)
    /\ pc[w] = "matrices"
    /\ IF NeedMatrices(node_distances)
       THEN /\ node_distances' = node_branch_length_distance_matrix(samples[fi[w]].tree)
            /\ builds' = Append(builds, fi[w])
            /\ pc' = [pc EXCEPT ![w] = "sides"]
            /\ UNCHANGED lock
       ELSE /\ lock' = Release(lock, "GAPPA_NHD_CALCULATE_MATRICES")
            /\ pc' = [pc EXCEPT ![w] = "reduce"]
            /\ UNCHANGED <<node_distances, builds>>
    /\ UNCHANGED <<config, phase, status, node_sides, hist_vecs, nhd_matrix, tree,
                   total_masses, scale, output, next_fi, fi, reg, hist, file_count, reports,
                   owner, entered, slot_writes, folded, prev, norm, rescales>>

\* Line 138: the assignment of node_sides, and the end of the section.
NhdSides(w) ==
    /\ InLoop(w)
    /\ pc[w] = "sides"
    /\ node_sides' = node_root_direction_matrix(samples[fi[w]].tree)
    /\ lock' = Release(lock, "GAPPA_NHD_CALCULATE_MATRICES")
    /\ pc' = [pc EXCEPT ![w] = "reduce"]
    /\ UNCHANGED <<config, phase, status, node_distances, hist_vecs, nhd_matrix, tree,
                   total_masses, scale, output, next_fi, fi, reg, hist, file_count, reports,
                   ghost, prev, norm, rescales>>

\* Line 143, right-hand side: the reduction, reading the shared matrices.
NhdReduce(w) ==
    /\ InLoop(w)
    /\ pc[w] = "reduce"
    /\ IF HistogramThrows(samples[fi[w]], node_distances, node_sides)
       THEN /\ pc' = [pc EXCEPT ![w] = "thrown"]
            /\ UNCHANGED hist
       ELSE /\ hist' = [hist EXCEPT ![w] =
                    node_distance_histogram_set(samples[fi[w]], node_distances, node_sides)]
            /\ pc' = [pc EXCEPT ![w] = "store"]
    /\ UNCHANGED <<config, phase, status, shared, next_fi, fi, reg, file_count, reports,
                   lock, ghost, prev, norm, rescales>>

\* Line 143, the assignment to hist_vecs[fi].
NhdStore(w) ==
    /\ InLoop(w)
    /\ pc[w] = "store"
    /\ hist_vecs' = [hist_vecs EXCEPT ![fi[w]] = hist[w]]
    /\ slot_writes' = [slot_writes EXCEPT ![fi[w]] = Append(@, w)]
    /\ hist' = [hist EXCEPT ![w] = NoHist]
    /\ pc' = [pc EXCEPT ![w] = "fetch"]
    /\ UNCHANGED <<config, phase, status, node_distances, node_sides, nhd_matrix, tree,
                   total_masses, scale, output, next_fi, fi, reg, file_count, reports, lock,
                   owner, builds, entered, folded, prev, norm, rescales>>

(***************************************************************************)
(* run_heat_tree, loop body (heat_tree.cpp 132-153).                       *)
(***************************************************************************)
HeatEnter(w) ==
    /\ InLoop(w)
    /\ cmd = "heat_tree"
    /\ pc[w] = "critical"
    /\ CanEnter(lock["GAPPA_VISUALIZE_ACCUMULATE"])
    /\ lock' = [lock EXCEPT !["GAPPA_VISUALIZE_ACCUMULATE"] = w]
    /\ entered' = IF entered = <<>> THEN <<fi[w]>> ELSE entered
    /\ pc' = [pc EXCEPT ![w] = "tree"]
    /\ UNCHANGED <<config, phase, status, shared, next_fi, fi, reg, hist, file_count,
                   reports, owner, builds, slot_writes, folded, prev, norm, rescales>>

\* The tree part without the compatibility test.
TreeStepUnchecked(ref, t) == IF TreeEmpty(ref) THEN "assign" ELSE "keep"

\* Lines 137-141: what the tree part of the section does with the sample's
\* tree, given the shared tree.
TreeStep(ref, t) ==
    IF TreeEmpty(ref) THEN "assign"
    ELSE IF ~ compatible_trees(ref, t) THEN "throw"
    ELSE "keep"

\* Lines 144-152: what the masses part does with the sample's masses.
MassesStep(total, masses) ==
    IF total = <<>> THEN "assign"
    ELSE IF Len(total) # Len(masses) THEN "throw"
    ELSE "add"

\* Lines 137-141.  The exception leaves the section without releasing it.
HeatTree(w) ==
    /\ InLoop(w)
    /\ pc[w] = "tree"
    /\ LET step == TreeStep(tree, samples[fi[w]].tree)
       IN  /\ tree' = IF step = "assign" THEN samples[fi[w]].tree ELSE tree
           /\ builds' = IF step = "assign" THEN Append(builds, fi[w]) ELSE builds
           /\ pc' = [pc EXCEPT ![w] = IF step = "throw" THEN "thrown" ELSE "masses"]
    /\ UNCHANGED <<config, phase, status, node_distances, node_sides, hist_vecs, nhd_matrix,
                   total_masses, scale, output, next_fi, fi, reg, hist, file_count, reports,
                   lock, owner, entered, slot_writes, folded, prev, norm, rescales>>

\* Lines 144-153, and the end of the section.
HeatMasses(w) ==
    /\ InLoop(w)
    /\ pc[w] = "masses"
    /\ LET masses == placement_mass_per_edges_with_multiplicities(samples[fi[w]])
           step   == MassesStep(total_masses, masses)
       IN  IF step = "throw"
           THEN /\ pc' = [pc EXCEPT ![w] = "thrown"]
                /\ UNCHANGED <<total_masses, folded, lock, builds>>
           ELSE /\ total_masses' = IF step = "assign" THEN masses
                                   ELSE AddMasses(total_masses, masses)
                /\ builds' = IF step = "assign" THEN Append(builds, fi[w]) ELSE builds
                /\ folded' = folded \cup {fi[w]}
                /\ lock' = Release(lock, "GAPPA_VISUALIZE_ACCUMULATE")
                /\ pc' = [pc EXCEPT ![w] = "fetch"]
    /\ UNCHANGED <<config, phase, status, node_distances, node_sides, hist_vecs, nhd_matrix,
                   tree, scale, output, next_fi, fi, reg, hist, file_count, reports,
                   owner, entered, slot_writes, prev, norm, rescales>>

(***************************************************************************)
(* An exception that leaves the loop body.  Without OpenMP the loop is an  *)
(* ordinary loop and the exception propagates to the caller of the run     *)
(* function.  With OpenMP the exception leaves the structured block of the *)
(* critical and parallel constructs, which OpenMP does not define: the     *)
(* runtime may call std::terminate or let the exception unwind.            *)
(***************************************************************************)
EscapeOutcomes == IF openmp THEN {"terminated", "propagated"} ELSE {"propagated"}

Escape(w) ==
    /\ InLoop(w)
    /\ pc[w] = "thrown"
    /\ status' \in EscapeOutcomes
    /\ UNCHANGED <<config, phase, shared, sched, ghost, prev, norm, rescales>>

(***************************************************************************)
(* End of the parallel loop: the implicit barrier of "omp parallel for".   *)
(***************************************************************************)
\* A loop end that does not wait for the whole team.
JoinReadyAny == \E w \in Team : pc[w] = "finished"

JoinReady == \A w \in Team : pc[w] = "finished"

Join ==
    /\ status = "running"
    /\ phase = "loop"
    /\ JoinReady
    /\ phase' = IF cmd = "nhd" THEN "distance" ELSE "relnorm"
    /\ UNCHANGED <<config, status, shared, sched, ghost, prev, norm, rescales>>

(***************************************************************************)
(* run_nhd after the loop (nhd.cpp 146-155).                               *)
(***************************************************************************)
Distance ==
    /\ status = "running"
    /\ phase = "distance"
    /\ nhd_matrix' = node_histogram_distance(hist_vecs)
    /\ phase' = "write"
    /\ UNCHANGED <<config, status, node_distances, node_sides, hist_vecs, tree, total_masses,
                   scale, output, sched, ghost, prev, norm, rescales>>

WriteMatrix ==
    /\ status = "running"
    /\ phase = "write"
    /\ cmd = "nhd"
    /\ output' = [written |-> TRUE, matrix |-> nhd_matrix]
    /\ phase' = "done"
    /\ status' = "returned"
    /\ UNCHANGED <<config, node_distances, node_sides, hist_vecs, nhd_matrix, tree,
                   total_masses, scale, sched, ghost, prev, norm, rescales>>

(***************************************************************************)
(* run_heat_tree after the loop (heat_tree.cpp 156-226).                   *)
(***************************************************************************)
\* Lines 157-162: every entry is divided by the sum; scale records the
\* divisor and rescales counts the executions of the division.
RelativeNormalise ==
    /\ status = "running"
    /\ phase = "relnorm"
    /\ IF relative
       THEN /\ total_masses' = Rescale(total_masses, SumSeq(total_masses))
            /\ scale' = SumSeq(total_masses)
            /\ rescales' = rescales + 1
       ELSE UNCHANGED <<total_masses, scale, rescales>>
    /\ phase' = "colornorm"
    /\ UNCHANGED <<config, status, node_distances, node_sides, hist_vecs, nhd_matrix, tree,
                   output, sched, ghost, prev, norm>>

(***************************************************************************)
(* Colour normalisation (heat_tree.cpp 164-215), in its four stages.       *)
(***************************************************************************)
HeuristicFactor == 100000   \* 10e4

\* Values that --min-value and --max-value are given in the model.
MinChoices == {Rat(1, 100), Zero, One}
MaxChoices == {Rat(3, 1)}

MinOptions == {NotGiven} \cup {Given(v) : v \in MinChoices}
MaxOptions == {NotGiven} \cup {Given(v) : v \in MaxChoices}

RECURSIVE VecMin(_)
VecMin(v) ==
    IF Len(v) = 1 THEN v[1]
    ELSE LET m == VecMin(Tail(v)) IN IF RLe(v[1], m) THEN v[1] ELSE m

RECURSIVE VecMax(_)
VecMax(v) ==
    IF Len(v) = 1 THEN v[1]
    ELSE LET m == VecMax(Tail(v)) IN IF RLe(m, v[1]) THEN v[1] ELSE m

\* Lines 164-171: the options are read, the norm is created and autoscaled
\* over total_masses, and the autoscaled minimum is kept in auto_min.
Autoscale ==
    /\ status = "running"
    /\ phase = "colornorm"
    /\ log_scaling' \in BOOLEAN
    /\ min_value_option' \in MinOptions
    /\ max_value_option' \in MaxOptions
    /\ clip_under_option' \in BOOLEAN
    /\ color_norm' = [min |-> VecMin(total_masses), max |-> VecMax(total_masses)]
    /\ auto_min' = VecMin(total_masses)
    /\ input' = total_masses
    /\ stages' = Append(stages, "autoscale")
    /\ phase' = "heuristic"
    /\ UNCHANGED <<config, status, shared, sched, ghost, prev, warned, rewritten, rescales>>

\* A heuristic that takes the branch for small maxima whatever the maximum is.
LogHeuristicMinRelative(lo, hi) ==
    IF RLe(lo, Zero) THEN RDivInt(hi, HeuristicFactor) ELSE lo

\* Lines 179-186: the minimum under log scaling.
LogHeuristicMin(lo, hi) ==
    IF RLe(lo, Zero)
    THEN IF RLt(One, hi) THEN One ELSE RDivInt(hi, HeuristicFactor)
    ELSE lo

\* A linear mode that keeps the autoscaled minimum.
ModeMinKeepLinear(log, lo, hi) == IF log THEN LogHeuristicMin(lo, hi) ELSE lo

\* Lines 172-190: the minimum that the mode asks for.
ModeMin(log, lo, hi) == IF log THEN LogHeuristicMin(lo, hi) ELSE Zero

\* A stage that leaves the minimum alone when --min-value is given.
HeuristicUnlessGiven ==
    /\ status = "running"
    /\ phase = "heuristic"
    /\ color_norm' = IF min_value_option.given
                     THEN color_norm
                     ELSE [color_norm EXCEPT
                             !.min = ModeMin(log_scaling, color_norm.min, color_norm.max)]
    /\ stages' = Append(stages, "heuristic")
    /\ phase' = "overrides"
    /\ UNCHANGED <<config, status, shared, sched, ghost, prev, log_scaling,
                   min_value_option, max_value_option, clip_under_option, auto_min,
                   warned, rewritten, input, rescales>>

\* Lines 172-190.
Heuristic ==
    /\ status = "running"
    /\ phase = "heuristic"
    /\ color_norm' = [color_norm EXCEPT
                        !.min = ModeMin(log_scaling, color_norm.min, color_norm.max)]
    /\ stages' = Append(stages, "heuristic")
    /\ phase' = "overrides"
    /\ UNCHANGED <<config, status, shared, sched, ghost, prev, log_scaling,
                   min_value_option, max_value_option, clip_under_option, auto_min,
                   warned, rewritten, input, rescales>>

\* Options that are never applied.
ApplyOptionNever(option, current) == current

\* ColorNormOptions::apply_options, for one value: a given option replaces
\* the value of the norm.
ApplyOption(option, current) == IF option.given THEN option.value ELSE current

\* Lines 192-194.
ApplyOptions ==
    /\ status = "running"
    /\ phase = "overrides"
    /\ color_norm' = [min |-> ApplyOption(min_value_option, color_norm.min),
                      max |-> ApplyOption(max_value_option, color_norm.max)]
    /\ stages' = Append(stages, "overrides")
    /\ phase' = "fixup"
    /\ UNCHANGED <<config, status, shared, sched, ghost, prev, log_scaling,
                   min_value_option, max_value_option, clip_under_option, auto_min,
                   warned, rewritten, input, rescales>>

\* A fix-up that decides on the minimum of the norm after apply_options.
FixUpBranchOnFinalMin(log, lo, min_given, clip_under) ==
    IF log /\ RLe(color_norm.min, Zero)
    THEN IF ~ min_given /\ ~ clip_under THEN "warn" ELSE "rewrite"
    ELSE "none"

\* Lines 198-204: what the fix-up does.
FixUpBranch(log, lo, min_given, clip_under) ==
    IF log /\ RLe(lo, Zero)
    THEN IF ~ min_given /\ ~ clip_under THEN "warn" ELSE "rewrite"
    ELSE "none"

\* A rewrite to the minimum of the norm itself.
RewriteToMin(v, m) == [i \in 1 .. Len(v) |-> IF RLe(v[i], Zero) THEN m ELSE v[i]]

\* Lines 209-213: every value <= 0 becomes half of the minimum of the norm.
Rewrite(v, m) == [i \in 1 .. Len(v) |-> IF RLe(v[i], Zero) THEN RDivInt(m, 2) ELSE v[i]]

\* A fix-up that rewrites with the autoscaled minimum.
FixUpWithAutoMin ==
    /\ status = "running"
    /\ phase = "fixup"
    /\ LET branch == FixUpBranch(log_scaling, auto_min, min_value_option.given,
                                 clip_under_option)
       IN  /\ warned' = (branch = "warn")
           /\ rewritten' = (branch = "rewrite")
           /\ total_masses' = IF branch = "rewrite"
                              THEN Rewrite(total_masses, auto_min)
                              ELSE total_masses
    /\ stages' = Append(stages, "fixup")
    /\ phase' = "write"
    /\ UNCHANGED <<config, status, node_distances, node_sides, hist_vecs, nhd_matrix, tree,
                   scale, output, sched, ghost, prev, log_scaling, min_value_option,
                   max_value_option, clip_under_option, color_norm, auto_min, input,
                   rescales>>

\* Lines 196-215.
FixUp ==
    /\ status = "running"
    /\ phase = "fixup"
    /\ LET branch == FixUpBranch(log_scaling, auto_min, min_value_option.given,
                                 clip_under_option)
       IN  /\ warned' = (branch = "warn")
           /\ rewritten' = (branch = "rewrite")
           /\ total_masses' = IF branch = "rewrite"
                              THEN Rewrite(total_masses, color_norm.min)
                              ELSE total_masses
    /\ stages' = Append(stages, "fixup")
    /\ phase' = "write"
    /\ UNCHANGED <<config, status, node_distances, node_sides, hist_vecs, nhd_matrix, tree,
                   scale, output, sched, ghost, prev, log_scaling, min_value_option,
                   max_value_option, clip_under_option, color_norm, auto_min, input,
                   rescales>>

\* Lines 217-226.
WriteTree ==
    /\ status = "running"
    /\ phase = "write"
    /\ cmd = "heat_tree"
    /\ output' = [written |-> TRUE, tree |-> tree, masses |-> total_masses,
                     scale |-> scale, color_norm |-> color_norm]
    /\ phase' = "done"
    /\ status' = "returned"
    /\ UNCHANGED <<config, node_distances, node_sides, hist_vecs, nhd_matrix, tree,
                   total_masses, scale, sched, ghost, prev, norm, rescales>>

(***************************************************************************)
(* Specification of one run.                                               *)
(***************************************************************************)
Next ==
    \/ \E w \in Threads : Fetch(w)
    \/ \E w \in Threads : CountRead(w)
    \/ \E w \in Threads : CountWrite(w)
    \/ \E w \in Threads : NhdEnter(w)
    \/ \E w \in Threads : NhdDistances(w)
    \/ \E w \in Threads : NhdSides(w)
    \/ \E w \in Threads : NhdReduce(w)
    \/ \E w \in Threads : NhdStore(w)
    \/ \E w \in Threads : HeatEnter(w)
    \/ \E w \in Threads : HeatTree(w)
    \/ \E w \in Threads : HeatMasses(w)
    \/ \E w \in Threads : Escape(w)
    \/ Join
    \/ Distance
    \/ WriteMatrix
    \/ RelativeNormalise
    \/ Autoscale
    \/ Heuristic
    \/ ApplyOptions
    \/ FixUp
    \/ WriteTree

Spec == Init /\ [][Next]_vars

(***************************************************************************)
(* The same run under fair scheduling: a thread of the team that can take  *)
(* a step eventually takes one, and so does the master after the loop.     *)
(***************************************************************************)
ThreadStep(w) ==
    \/ Fetch(w)
    \/ CountRead(w)
    \/ CountWrite(w)
    \/ NhdEnter(w)
    \/ NhdDistances(w)
    \/ NhdSides(w)
    \/ NhdReduce(w)
    \/ NhdStore(w)
    \/ HeatEnter(w)
    \/ HeatTree(w)
    \/ HeatMasses(w)
    \/ Escape(w)

MasterStep ==
    \/ Join
    \/ Distance
    \/ WriteMatrix
    \/ RelativeNormalise
    \/ Autoscale
    \/ Heuristic
    \/ ApplyOptions
    \/ FixUp
    \/ WriteTree

Fairness == (\A w \in Threads : WF_vars(ThreadStep(w))) /\ WF_vars(MasterStep)

SpecFair == Init /\ [][Next]_vars /\ Fairness

(***************************************************************************)
(* A second run of the same command on the same input, started after the   *)
(* first has returned; prev keeps what the first run published.            *)
(***************************************************************************)
Rerun ==
    /\ status = "returned"
    /\ prev' = [set |-> TRUE, tree |-> tree, nd |-> node_distances, ns |-> node_sides]
    /\ phase' = "loop"
    /\ status' = "running"
    /\ next_fi' = 0
    /\ pc' = [w \in Team |-> "fetch"]
    /\ fi' = [w \in Team |-> 0]
    /\ reg' = [w \in Team |-> 0]
    /\ hist' = [w \in Team |-> NoHist]
    /\ file_count' = 0
    /\ reports' = [k \in 1 .. NumFiles |-> 0]
    /\ lock' = [n \in CriticalNames |-> 0]
    /\ node_distances' = EmptyMatrix
    /\ node_sides' = EmptyMatrix
    /\ hist_vecs' = [f \in Files |-> NoHist]
    /\ nhd_matrix' = NoMatrix
    /\ tree' = EmptyTree
    /\ total_masses' = <<>>
    /\ scale' = One
    /\ output' = NoOutput
    /\ owner' = [f \in Files |-> 0]
    /\ builds' = <<>>
    /\ entered' = <<>>
    /\ slot_writes' = [f \in Files |-> <<>>]
    /\ folded' = {}
    /\ rescales' = 0
    /\ log_scaling' = FALSE
    /\ min_value_option' = NotGiven
    /\ max_value_option' = NotGiven
    /\ clip_under_option' = FALSE
    /\ color_norm' = [min |-> Zero, max |-> One]
    /\ auto_min' = Zero
    /\ warned' = FALSE
    /\ rewritten' = FALSE
    /\ stages' = <<>>
    /\ input' = <<>>
    /\ UNCHANGED config

SpecRerun == Init /\ [][Next \/ Rerun]_vars

(***************************************************************************)
(* The colour normalisation on its own: run_heat_tree at line 164 with a   *)
(* working vector drawn from NormValues, values <= 0 included.  The rest   *)
(* of the state is that of a one-thread run that has left the loop.        *)
(***************************************************************************)
NormLen == 2

NormValues == {Rat(0 - 1, 1), Zero, Rat(2, 5), One, Rat(2, 1)}

InitNorm ==
    /\ cmd = "heat_tree"
    /\ openmp = FALSE
    /\ num_threads = 1
    /\ relative = FALSE
    /\ samples \in [Files -> {[tree |-> [topo |-> "A", bl |-> 1],
                               mass |-> [i \in 1 .. EdgeCount("A") |-> 1]]}]
    /\ prev = NoPrev
    /\ phase = "colornorm"
    /\ status = "running"
    /\ next_fi = NumFiles
    /\ pc = [w \in Team |-> "finished"]
    /\ fi = [w \in Team |-> NumFiles - 1]
    /\ reg = [w \in Team |-> NumFiles - 1]
    /\ hist = [w \in Team |-> NoHist]
    /\ file_count = NumFiles
    /\ reports = [k \in 1 .. NumFiles |-> 1]
    /\ lock = [n \in CriticalNames |-> 0]
    /\ node_distances = EmptyMatrix
    /\ node_sides = EmptyMatrix
    /\ hist_vecs = [f \in Files |-> NoHist]
    /\ nhd_matrix = NoMatrix
    /\ tree = [topo |-> "A", bl |-> 1]
    /\ total_masses \in [1 .. NormLen -> NormValues]
    /\ scale = One
    /\ output = NoOutput
    /\ owner = [f \in Files |-> 1]
    /\ builds = <<0, 0>>
    /\ entered = <<0>>
    /\ slot_writes = [f \in Files |-> <<>>]
    /\ folded = Files
    /\ rescales = 0
    /\ NormStart

NextNorm ==
    \/ Autoscale
    \/ Heuristic
    \/ ApplyOptions
    \/ FixUp
    \/ WriteTree

SpecNorm == InitNorm /\ [][NextNorm]_vars

(***************************************************************************)
(* Properties.                                                             *)
(***************************************************************************)
Thrown == \E w \in Team : pc[w] = "thrown"

\* Tree that the shared structures of the run were taken from, as far as
\* they record it: the shared tree of run_heat_tree, the topology of the
\* matrices of run_nhd.
ReferenceTopo == IF cmd = "heat_tree" THEN tree.topo ELSE MatrixTopo(node_distances)

\* The contribution of file f has gone into the shared result.
Used(f) == IF cmd = "heat_tree" THEN f \in folded ELSE hist_vecs[f] # NoHist

\* C1: in run_nhd the matrices are constructed at most once, exactly once
\* in a run that gets past the loop, by the first iteration that entered
\* the section GAPPA_NHD_CALCULATE_MATRICES, and once both are assigned
\* they stay the matrices of that iteration's tree.
C1_MatricesBuiltOnce ==
    cmd = "nhd" =>
        /\ Len(builds) <= 1
        /\ builds # <<>> => entered # <<>> /\ builds[1] = entered[1]
        /\ phase # "loop" => Len(builds) = 1
        /\ builds = <<>> => MatrixEmpty(node_distances) /\ MatrixEmpty(node_sides)
        /\ builds # <<>> =>
              /\ node_distances = node_branch_length_distance_matrix(samples[builds[1]].tree)
              /\ \/ MatrixEmpty(node_sides)
                 \/ node_sides = node_root_direction_matrix(samples[builds[1]].tree)

\* A two-thread run of run_nhd got past the loop, and the iteration of the
\* second file is the one that constructed the matrices.
C1_Witness ==
    /\ cmd = "nhd"
    /\ phase = "distance"
    /\ builds = <<1>>
    /\ owner[0] # owner[1]

\* C2: a thread of run_nhd that is in the reduction, or holds its result,
\* finds both matrices assigned, and the result was computed from both.
C2_ReductionSeesBuiltMatrices ==
    \A w \in Team :
        /\ pc[w] = "reduce" => ~ MatrixEmpty(node_distances) /\ ~ MatrixEmpty(node_sides)
        /\ pc[w] = "store" => ~ MatrixEmpty(hist[w].nd) /\ ~ MatrixEmpty(hist[w].ns)

\* Two threads are in the reduction at once; one of them ran the iteration
\* that constructed the matrices, the other did not.
C2_Witness ==
    /\ cmd = "nhd"
    /\ \E w1, w2 \in Team :
          /\ w1 # w2
          /\ pc[w1] = "reduce" /\ pc[w2] = "reduce"
          /\ builds = <<fi[w1]>>
          /\ fi[w2] # fi[w1]

\* C3: in both commands, a sample whose contribution is in the shared
\* result has a tree compatible with the reference tree of the run.
C3_ContributionsAreChecked ==
    \A f \in Files : Used(f) => samples[f].tree.topo = ReferenceTopo

\* The sample of thread w fails the test that the statement at pc[w] makes.
Mismatch(w) ==
    \/ /\ pc[w] = "tree"
       /\ ~ TreeEmpty(tree)
       /\ ~ compatible_trees(tree, samples[fi[w]].tree)
    \/ /\ pc[w] = "masses"
       /\ total_masses # <<>>
       /\ Len(total_masses) # Len(placement_mass_per_edges_with_multiplicities(samples[fi[w]]))

\* C4: in run_heat_tree, a step of a thread whose sample has an incompatible
\* tree, or masses of another length than total_masses, raises the error
\* and leaves the tree and total_masses as they were.
C4_MismatchRaisesAndContributesNothing ==
    [][ \A w \in Team :
          (cmd = "heat_tree" /\ Mismatch(w) /\ pc'[w] # pc[w])
              => /\ pc'[w] = "thrown"
                 /\ tree' = tree
                 /\ total_masses' = total_masses
                 /\ folded' = folded ]_vars

\* A thread of run_heat_tree has raised the error for a sample that came
\* after another sample had been accumulated.
C4_Witness ==
    /\ cmd = "heat_tree"
    /\ \E w \in Team :
          /\ pc[w] = "thrown"
          /\ fi[w] \notin folded
          /\ folded # {}
          /\ ~ compatible_trees(tree, samples[fi[w]].tree)

\* C5: in run_heat_tree, once a thread has raised the error, total_masses
\* and the tree are not changed any more, no statement after the loop is
\* reached, and when the run has ended the caller has received the error.
C5_AbortPropagatesOneError ==
    /\ [](cmd = "heat_tree" /\ Thrown => phase = "loop")
    /\ [][cmd = "heat_tree" /\ Thrown => (tree' = tree /\ total_masses' = total_masses)]_vars
    /\ [](cmd = "heat_tree" /\ Thrown /\ status # "running" => status = "propagated")

RECURSIVE MassSum(_, _)
\* Sum over the files 0 .. n-1 of the mass on edge i.
MassSum(i, n) == IF n = 0 THEN 0 ELSE samples[n - 1].mass[i] + MassSum(i, n - 1)

ElementwiseSum ==
    [i \in 1 .. EdgeCount(samples[0].tree.topo) |-> Rat(MassSum(i, NumFiles), 1)]

AllCompatible == \A f, g \in Files : compatible_trees(samples[f].tree, samples[g].tree)

\* C7: over compatible samples, a second run publishes the same shared
\* structures as the first: the same tree is handed to the writer by
\* run_heat_tree, and run_nhd uses the same two matrices.
C7_PublishedIndependentOfWinner ==
    prev # NoPrev /\ AllCompatible =>
        /\ cmd = "heat_tree" /\ output # NoOutput => output.tree = prev.tree
        /\ cmd = "nhd" /\ ~ MatrixEmpty(node_sides) =>
              node_distances = prev.nd /\ node_sides = prev.ns

\* hist_vecs of the run with one thread: the iteration of file 0 is the
\* first, so the matrices are those of its tree.
SequentialHistVecs ==
    [f \in Files |-> node_distance_histogram_set(samples[f],
                        node_branch_length_distance_matrix(samples[0].tree),
                        node_root_direction_matrix(samples[0].tree))]

\* C8: when run_nhd gets past the loop, hist_vecs is what the run with one
\* thread computes, and so is the distance matrix.
C8_SameAsSequentialRun ==
    cmd = "nhd" =>
        /\ phase \in {"distance", "write", "done"} => hist_vecs = SequentialHistVecs
        /\ phase \in {"write", "done"} =>
              nhd_matrix = node_histogram_distance(SequentialHistVecs)

C10_DistanceAfterAllStores ==
    cmd = "nhd" /\ phase \in {"distance", "write", "done"} =>
        /\ \A w \in Team : pc[w] = "finished"
        /\ \A f \in Files :
              /\ hist_vecs[f] # NoHist
              /\ hist_vecs[f].sample = samples[f]
              /\ slot_writes[f] = <<owner[f]>>

\* node_histogram_distance has returned in a run of run_nhd in which each of
\* two threads stored one slot.
C10_Witness ==
    /\ cmd = "nhd"
    /\ phase = "write"
    /\ slot_writes[0] # slot_writes[1]

\* C11: the matrix that node_histogram_distance returns to run_nhd has a
\* zero diagonal, is symmetric and has no negative entry.
C11_EngineMatrixIsSymmetric ==
    cmd = "nhd" /\ phase \in {"write", "done"} =>
        \A i, j \in Files :
            /\ nhd_matrix[i][i] = 0
            /\ nhd_matrix[i][j] = nhd_matrix[j][i]
            /\ nhd_matrix[i][j] >= 0

\* The engine has returned a matrix with a positive distance between two
\* samples whose histogram sets differ.
C11_Witness ==
    /\ cmd = "nhd"
    /\ phase = "write"
    /\ \E i, j \in Files : i < j /\ hist_vecs[i] # hist_vecs[j] /\ nhd_matrix[i][j] > 0

\* total_masses divided once by the sum of the accumulated vector.
RescaledSum == [i \in 1 .. Len(ElementwiseSum) |->
                   RDiv(ElementwiseSum[i], SumSeq(ElementwiseSum))]

\* C12: run_heat_tree divides total_masses by its sum at most once, only
\* when relative normalisation is requested and only after every thread has
\* left the loop; after lines 156-162 the vector is the accumulated sum
\* divided by its total S and sums to 1 when S > 0 if the normalisation was
\* requested, and is the accumulated sum itself if it was not.
C12_RescaledOnceAfterWorkers ==
    /\ rescales <= 1
    /\ rescales = 1 =>
          /\ cmd = "heat_tree"
          /\ relative
          /\ phase \notin {"loop", "relnorm"}
          /\ \A w \in Team : pc[w] = "finished"
    /\ cmd = "heat_tree" /\ phase = "colornorm" =>
          IF relative
          THEN /\ rescales = 1
               /\ scale = SumSeq(ElementwiseSum)
               /\ total_masses = RescaledSum
               /\ RLt(Zero, scale) => SumSeq(total_masses) = One
          ELSE /\ rescales = 0
               /\ total_masses = ElementwiseSum

\* A relative run has divided a vector whose sum is not 1 and that now sums
\* to 1.
C12_Witness ==
    /\ cmd = "heat_tree"
    /\ phase = "colornorm"
    /\ relative
    /\ rescales = 1
    /\ RLt(One, scale)
    /\ total_masses # ElementwiseSum
    /\ SumSeq(total_masses) = One

\* Positions of run_heat_tree after line 194, where the norm has its final
\* minimum and maximum.
AfterOverrides == cmd = "heat_tree" /\ phase \in {"fixup", "write", "done"} /\ stages # <<>>

\* C13: under log scaling and without --min-value and --max-value, the final
\* minimum is 1 if the autoscaled minimum is <= 0 and the autoscaled maximum
\* is > 1, is the autoscaled maximum / 10^5 if the autoscaled minimum is <= 0
\* and the maximum is <= 1, and is the autoscaled minimum if that is > 0; in
\* the last case the heuristic itself has left the minimum alone, whatever
\* the options are.
C13_LogHeuristicMinimum ==
    /\ AfterOverrides /\ log_scaling /\ ~ min_value_option.given /\ ~ max_value_option.given =>
          IF RLe(VecMin(input), Zero)
          THEN IF RLt(One, VecMax(input))
               THEN color_norm.min = One
               ELSE color_norm.min = Rat(VecMax(input).n, VecMax(input).d * 100000)
          ELSE color_norm.min = VecMin(input)
    /\ cmd = "heat_tree" /\ phase = "overrides" /\ log_scaling /\ RLt(Zero, VecMin(input)) =>
          color_norm.min = VecMin(input)

\* Log scaling without overrides on a vector with minimum <= 0 and maximum
\* exactly 1: the minimum is 1 / 10^5.
C13_Witness ==
    /\ AfterOverrides
    /\ log_scaling /\ ~ min_value_option.given /\ ~ max_value_option.given
    /\ RLe(VecMin(input), Zero)
    /\ VecMax(input) = One
    /\ color_norm.min = Rat(1, 100000)

\* C14: without log scaling and without --min-value the final minimum of
\* the norm is 0, whatever the vector is.
C14_LinearMinimumIsZero ==
    AfterOverrides /\ ~ log_scaling /\ ~ min_value_option.given => color_norm.min = Zero

\* A linear run without --min-value on a vector of strictly positive values.
C14_Witness ==
    /\ AfterOverrides
    /\ ~ log_scaling /\ ~ min_value_option.given
    /\ RLt(Zero, VecMin(input))
    /\ color_norm.min = Zero

\* C15: after the options are applied, a given --min-value is the minimum
\* of the norm and a given --max-value is its maximum, in both modes and
\* for every vector.
C15_ExplicitValuesWin ==
    AfterOverrides =>
        /\ min_value_option.given => color_norm.min = min_value_option.value
        /\ max_value_option.given => color_norm.max = max_value_option.value

\* Both values are given under log scaling on a vector for which the
\* heuristic had set the minimum to 1, and the norm holds the given values.
C15_Witness ==
    /\ AfterOverrides
    /\ log_scaling
    /\ RLe(VecMin(input), Zero) /\ RLt(One, VecMax(input))
    /\ min_value_option = Given(Rat(1, 100))
    /\ max_value_option.given /\ max_value_option.value # VecMax(input)
    /\ color_norm = [min |-> Rat(1, 100), max |-> max_value_option.value]

\* Positions of run_heat_tree after line 215.
AfterFixUp == cmd = "heat_tree" /\ phase \in {"write", "done"} /\ stages # <<>>

\* C16: under log scaling with an autoscaled minimum <= 0 and --min-value m,
\* after the fix-up every entry that was <= 0 is m / 2, every entry that was
\* > 0 is unchanged, and no warning was issued.
C16_RewriteToHalfOfExplicitMin ==
    AfterFixUp /\ log_scaling /\ RLe(VecMin(input), Zero) /\ min_value_option.given =>
        /\ \A i \in 1 .. Len(input) :
              total_masses[i] = IF RLe(input[i], Zero)
                                THEN Rat(min_value_option.value.n,
                                         min_value_option.value.d * 2)
                                ELSE input[i]
        /\ ~ warned

\* --min-value 1/100 on a vector with one entry <= 0 and one entry > 0 for
\* which the heuristic had chosen another minimum: the entry <= 0 is 1/200.
C16_Witness ==
    /\ AfterFixUp
    /\ log_scaling
    /\ min_value_option = Given(Rat(1, 100))
    /\ \E i, j \in 1 .. Len(input) :
          /\ RLe(input[i], Zero) /\ total_masses[i] = Rat(1, 200)
          /\ RLt(One, input[j]) /\ total_masses[j] = input[j]

\* C17 as stated: under log scaling with --min-value, the minimum of the
\* norm is at every position of the colour normalisation either the
\* autoscaled minimum or the given value, never a value of the heuristic.
C17_HeuristicNeverRuns ==
    cmd = "heat_tree" /\ stages # <<>> /\ log_scaling /\ min_value_option.given =>
        color_norm.min \in {VecMin(input), min_value_option.value}

\* C17, amended: under log scaling with --min-value the heuristic runs all
\* the same; between lines 190 and 194 the minimum is 1 or maximum / 10^5
\* when the autoscaled minimum is <= 0, and from line 194 on it is the given
\* value.
C17_HeuristicRunsThenOverridden ==
    cmd = "heat_tree" /\ log_scaling /\ min_value_option.given =>
        /\ phase = "overrides" =>
              color_norm.min =
                  IF RLe(VecMin(input), Zero)
                  THEN IF RLt(One, VecMax(input))
                       THEN One
                       ELSE Rat(VecMax(input).n, VecMax(input).d * 100000)
                  ELSE VecMin(input)
        /\ phase \in {"fixup", "write", "done"} => color_norm.min = min_value_option.value

\* --min-value 1/100 is given, and before apply_options the minimum is the 1
\* of the heuristic.
C17_Witness ==
    /\ cmd = "heat_tree"
    /\ phase = "overrides"
    /\ log_scaling
    /\ min_value_option = Given(Rat(1, 100))
    /\ RLe(VecMin(input), Zero)
    /\ color_norm.min = One

\* C18: the warning is issued exactly when log scaling is on, the autoscaled
\* minimum is <= 0 and neither --min-value nor --clip-under is given; the
\* rewrite is done exactly when log scaling is on, the autoscaled minimum is
\* <= 0 and one of the two is given; never both, and otherwise the vector
\* leaves the fix-up as it entered it.  Before the fix-up neither has
\* happened.
C18_WarningOrRewrite ==
    /\ AfterFixUp =>
          LET trigger == log_scaling /\ RLe(VecMin(input), Zero)
              chosen  == min_value_option.given \/ clip_under_option
          IN  /\ warned <=> (trigger /\ ~ chosen)
              /\ rewritten <=> (trigger /\ chosen)
              /\ ~ (warned /\ rewritten)
              /\ ~ rewritten => total_masses = input
    /\ ~ AfterFixUp => ~ warned /\ ~ rewritten

\* The rewrite was done for --clip-under alone although the final minimum of
\* the norm is > 0: the autoscaled minimum decided.
C18_Witness ==
    /\ AfterFixUp
    /\ rewritten /\ ~ warned
    /\ clip_under_option /\ ~ min_value_option.given
    /\ RLt(Zero, color_norm.min)
    /\ total_masses # input

\* The stages of the colour normalisation in the order of spec section 4.4.
StageOrder == <<"autoscale", "heuristic", "overrides", "fixup">>

\* Number of stages that have run when run_heat_tree is at a phase.
StagesDone ==
    CASE phase = "heuristic" -> 1
      [] phase = "overrides" -> 2
      [] phase = "fixup"     -> 3
      [] phase \in {"write", "done"} -> 4
      [] OTHER -> 0

\* C19: at every position of run_heat_tree the stages that have run are an
\* initial part of autoscale, heuristic, overrides, fix-up, all four once
\* the output is written; auto_min is the minimum that autoscale found,
\* whatever the heuristic and the options did to the norm; a rewrite is
\* decided on that minimum and writes half of the final minimum of the norm.
C19_StagesInOrder ==
    cmd = "heat_tree" =>
        /\ stages = SubSeq(StageOrder, 1, StagesDone)
        /\ stages # <<>> => auto_min = VecMin(input)
        /\ rewritten =>
              /\ RLe(auto_min, Zero)
              /\ \A i \in 1 .. Len(input) :
                    RLe(input[i], Zero) =>
                        total_masses[i] = Rat(color_norm.min.n, color_norm.min.d * 2)

\* All four stages have run, the heuristic and the options have both moved
\* the minimum away from the autoscaled one, and the rewrite wrote half of
\* the final minimum.
C19_Witness ==
    /\ cmd = "heat_tree"
    /\ phase = "write"
    /\ stages = StageOrder
    /\ rewritten
    /\ min_value_option.given
    /\ color_norm.min \notin {auto_min, Zero, One}
    /\ \E i \in 1 .. Len(input) :
          total_masses[i] = Rat(color_norm.min.n, color_norm.min.d * 2)

\* C20: after a rewrite every entry of total_masses is strictly positive.
C20_RewrittenVectorIsPositive ==
    AfterFixUp /\ rewritten => \A i \in 1 .. Len(total_masses) : RLt(Zero, total_masses[i])

\* No thread is inside GAPPA_VISUALIZE_ACCUMULATE and no exception was thrown.
OutsideAccumulation ==
    /\ cmd = "heat_tree"
    /\ status \in {"running", "returned"}
    /\ lock["GAPPA_VISUALIZE_ACCUMULATE"] = 0
    /\ ~ Thrown

\* C21: in run_heat_tree, whenever no thread is inside the section
\* GAPPA_VISUALIZE_ACCUMULATE and nothing was thrown, tree and total_masses
\* are both unset, or tree is the tree of the first sample that entered the
\* section and total_masses was first assigned from that same sample and
\* has one entry per edge of tree; once assigned, total_masses never
\* changes its length.
C21_TreeAndMassesSetTogether ==
    /\ [](OutsideAccumulation =>
            IF builds = <<>>
            THEN TreeEmpty(tree) /\ total_masses = <<>>
            ELSE /\ builds = <<entered[1], entered[1]>>
                 /\ tree = samples[entered[1]].tree
                 /\ Len(total_masses) = EdgeCount(tree.topo))
    /\ [][cmd = "heat_tree" /\ total_masses # <<>> =>
             Len(total_masses') = Len(total_masses)]_vars

\* Two threads: the sample of file 1 was the first in the section and set
\* tree and total_masses, the section is free again and the iteration of
\* file 0 has not entered it yet.
C21_Witness ==
    /\ OutsideAccumulation
    /\ phase = "loop"
    /\ entered = <<1>>
    /\ folded = {1}
    /\ tree = samples[1].tree
    /\ samples[0].tree # samples[1].tree
    /\ \E w \in Team : pc[w] = "critical" /\ fi[w] = 0

\* C22: after the loop of either command file_count is the number of files
\* and each number 1..N was reported in exactly one "Processing file" line.
C22_ProgressCounterExact ==
    phase # "loop" =>
        /\ file_count = NumFiles
        /\ \A k \in 1 .. NumFiles : reports[k] = 1

\* A thread is waiting for, or inside, a critical section.
AtSection(w) == w \in Team /\ pc[w] \in {"critical", "matrices", "sides", "tree", "masses"}

\* C23: under fair scheduling, in a run in which nothing is thrown, the
\* loop of either command is left; every index is handed to one thread,
\* once, and its contribution goes into the shared result once; a thread
\* that waits for a section holds no section, and it gets into the section
\* and out of it again; the statements after the loop are reached only when
\* every index has been handed out and processed.
C23_LoopsTerminate ==
    /\ <>(Thrown \/ phase # "loop")
    /\ \A w \in Threads :
          (w \in Team /\ pc[w] = "critical") ~> (Thrown \/ ~ AtSection(w))
    /\ [](\A w \in Team : pc[w] = "critical" => \A n \in CriticalNames : lock[n] # w)
    /\ [](phase # "loop" =>
            /\ next_fi = NumFiles
            /\ \A f \in Files : owner[f] \in Team /\ Used(f))
    /\ [][\A w \in Team :
            /\ pc[w] = "fetch" /\ pc'[w] = "count_read" =>
                  owner[fi'[w]] = 0 /\ owner'[fi'[w]] = w
            /\ pc[w] \in {"masses", "store"} /\ pc'[w] = "fetch" =>
                  ~ Used(fi[w]) /\ Used(fi[w])']_vars

\* Every index is handed out, nothing was thrown, and one thread waits for
\* the section that another thread of the team is inside.
C23_Witness ==
    /\ status = "running"
    /\ phase = "loop"
    /\ next_fi = NumFiles
    /\ ~ Thrown
    /\ \E w1, w2 \in Team :
          /\ w1 # w2
          /\ pc[w1] = "critical"
          /\ AtSection(w2) /\ \E n \in CriticalNames : lock[n] = w2

====
